---- MODULE Spec2Model ----
(***************************************************************************)
(* Model of the input-to-render controller of src/www/index.js: run()      *)
(* (bootstrap), updateTriangle(), clearCanvas() and logMessage(), together *)
(* with the page (five elements looked up by id), the render engine the    *)
(* controller imports (get_depth, get_length, set_depth, set_length,       *)
(* main_js) and the user (input and click events, passing time).           *)
(*                                                                         *)
(* JavaScript runs each handler to completion, so run() and every event    *)
(* dispatch is one action.  Text is a sequence of one-character strings    *)
(* for field contents (they are parsed) and a sequence of tokens for log   *)
(* messages (they are only concatenated).                                  *)
(***************************************************************************)
EXTENDS Integers, Sequences, FiniteSets

\* ------------------------------------------------------------------ bounds

\* User events (input or click) in one session.
MaxEvents == 2
\* Clock ticks that make up one debounce delay window (the spec's 250 ms).
DelayTicks == 2

\* ------------------------------------------------------------- numbers

\* A JavaScript number: NaN, or the decimal m / 10^s (s = 0: an integer).
Num(m, s) == [nan |-> FALSE, m |-> m, s |-> s]
NaN == [nan |-> TRUE, m |-> 0, s |-> 0]

\* A comparison with NaN (x === NaN), which is never true.
isNaNByComparison(x) == FALSE

isNaN(x) == x.nan

\* The canonical form of m / 10^s: no trailing zero in the fraction.
RECURSIVE Normalize(_, _)
Normalize(m, s) ==
  IF s > 0 /\ m % 10 = 0 THEN Normalize(m \div 10, s - 1) ELSE Num(m, s)

DigitChars == <<"0", "1", "2", "3", "4", "5", "6", "7", "8", "9">>
IsDigit(c) == \E i \in 1..10 : DigitChars[i] = c
DigitVal(c) == (CHOOSE i \in 1..10 : DigitChars[i] = c) - 1
WhiteSpace == {" "}

\* StrWhiteSpaceChar* is skipped by parseInt and parseFloat.
RECURSIVE TrimStart(_)
TrimStart(t) ==
  IF t # <<>> /\ Head(t) \in WhiteSpace THEN TrimStart(Tail(t)) ELSE t

\* The longest prefix of t made of decimal digits.
RECURSIVE DigitPrefix(_)
DigitPrefix(t) ==
  IF t # <<>> /\ IsDigit(Head(t))
  THEN <<Head(t)>> \o DigitPrefix(Tail(t))
  ELSE <<>>

RECURSIVE DigitsValue(_)
DigitsValue(d) ==
  IF d = <<>> THEN 0
  ELSE DigitsValue(SubSeq(d, 1, Len(d) - 1)) * 10 + DigitVal(d[Len(d)])

Unsigned(t) == IF t # <<>> /\ Head(t) \in {"-", "+"} THEN Tail(t) ELSE t
SignOf(t) == IF t # <<>> /\ Head(t) = "-" THEN -1 ELSE 1

\* parseInt(string) with no radix: leading white space, an optional sign, then
\* the longest run of digits; what follows is ignored; NaN without a digit.
\* (Hexadecimal "0x" prefixes are outside the alphabet of FieldTexts.)
parseInt(text) ==
  LET t == TrimStart(text)
      d == DigitPrefix(Unsigned(t))
  IN  IF d = <<>> THEN NaN ELSE Num(SignOf(t) * DigitsValue(d), 0)

\* parseInt used where parseFloat is meant: the fraction is dropped.
parseFloatAsInt(text) == parseInt(text)

\* parseFloat(string): leading white space, an optional sign, digits, an
\* optional "." and digits; what follows is ignored; NaN without a digit.
\* (Exponents and "Infinity" are outside the alphabet of FieldTexts.)
parseFloat(text) ==
  LET t  == TrimStart(text)
      u  == Unsigned(t)
      ip == DigitPrefix(u)
      r  == SubSeq(u, Len(ip) + 1, Len(u))
      fp == IF r # <<>> /\ Head(r) = "." THEN DigitPrefix(Tail(r)) ELSE <<>>
  IN  IF ip = <<>> /\ fp = <<>> THEN NaN
      ELSE Normalize(SignOf(t) * DigitsValue(ip \o fp), Len(fp))

RECURSIVE NatDigits(_)
NatDigits(n) ==
  IF n < 10 THEN <<DigitChars[n + 1]>>
  ELSE NatDigits(n \div 10) \o <<DigitChars[(n % 10) + 1]>>

RECURSIVE Zeros(_)
Zeros(n) == IF n <= 0 THEN <<>> ELSE <<"0">> \o Zeros(n - 1)

\* Number::toString, which the assignment to an input's value applies.
NumberToString(x) ==
  IF x.nan THEN <<"N", "a", "N">>
  ELSE LET a  == IF x.m < 0 THEN -x.m ELSE x.m
           d  == NatDigits(a)
           sg == IF x.m < 0 THEN <<"-">> ELSE <<>>
       IN  IF x.s = 0 THEN sg \o d
           ELSE IF Len(d) > x.s
           THEN sg \o SubSeq(d, 1, Len(d) - x.s) \o <<".">>
                   \o SubSeq(d, Len(d) - x.s + 1, Len(d))
           ELSE sg \o <<"0", ".">> \o Zeros(x.s - Len(d)) \o d

\* ---------------------------------------------------------------- the page

\* ELEMENT_IDS, in the order of its keys.
ELEMENT_IDS == <<"OUTPUT", "DEPTH", "LENGTH", "DRAW", "CANVAS">>
Roles == {ELEMENT_IDS[i] : i \in 1..Len(ELEMENT_IDS)}

\* What a user may leave in a numeric field.
FieldTexts ==
  { <<>>, <<"3">>, <<"-", "1">>, <<"a", "b">>, <<"3", "p">>, <<"2", ".", "5">> }

\* The text the page shows in the output region before the script runs.
PageText == <<"loading">>

\* The parameters the engine holds when the page loads.
EngineDefaults ==
  { [depth |-> Num(5, 0), length |-> Num(100, 0)],
    [depth |-> Num(2, 0), length |-> Num(25, 1)],
    [depth |-> Num(0, 0), length |-> Num(5, 2)] }

\* Which engine call, if any, throws during one handler.
Faults == {"none", "set_depth", "set_length", "main_js"}

VARIABLES
  present,      \* the roles whose element exists in the document
  ctrl,         \* "Initializing", "Ready" (run's try block completed), "Failed" (its catch ran)
  depthValue,   \* depthInput.value
  lengthValue,  \* lengthInput.value
  engine,       \* the engine's stored [depth, length]
  canvas,       \* what is drawn on the surface: one entry per render since the last clear
  out,          \* the output element's innerText, as tokens
  listeners,    \* the registered event listeners, [target, type]
  last,         \* what the most recent handler did (its calls, log entries, exception)
  runs,         \* invocations of updateTriangle so far
  events,       \* user events so far
  quiet,        \* ticks since the last input event on a numeric field, capped at DelayTicks
  burstEvents,  \* input events on numeric fields in the current burst
  burstRuns     \* executions of updateTriangle those events have caused so far

vars == <<present, ctrl, depthValue, lengthValue, engine, canvas, out, listeners,
          last, runs, events, quiet, burstEvents, burstRuns>>

\* ------------------------------------------------------------ the engine

\* get_depth() and get_length(): the engine's stored parameters.
get_depth(w) == w.engine.depth
get_length(w) == w.engine.length

\* The exception an engine call raises when it fails.
EngineError(call) == <<"engine call failed: ", call>>

Call(op, arg) == [op |-> op, arg |-> arg]
NoArg == NaN

\* set_depth(n): stores n as given (the engine validates nothing), or throws.
set_depth(w, n, fault) ==
  IF fault = "set_depth" THEN [w EXCEPT !.threw = EngineError("set_depth")]
  ELSE [w EXCEPT !.engine.depth = n, !.calls = Append(@, Call("set_depth", n))]

\* set_length(x): stores x as given, or throws.
set_length(w, x, fault) ==
  IF fault = "set_length" THEN [w EXCEPT !.threw = EngineError("set_length")]
  ELSE [w EXCEPT !.engine.length = x, !.calls = Append(@, Call("set_length", x))]

\* main_js(): one draw pass over the surface with the stored parameters, or
\* throws.
main_js(w, fault) ==
  IF fault = "main_js" THEN [w EXCEPT !.threw = EngineError("main_js")]
  ELSE [w EXCEPT !.canvas = Append(@, w.engine),
                 !.calls = Append(@, Call("main_js", NoArg))]

\* ---------------------------------------------------------- the handlers

\* A handler works on a record w: the page and engine state it reads and
\* writes, and what it has done so far (log entries, engine and surface
\* calls, the steps of run() in the order taken, the exception in flight,
\* whether updateTriangle was entered).
HandlerStart ==
  [depthValue |-> depthValue, lengthValue |-> lengthValue, engine |-> engine,
   canvas |-> canvas, out |-> out, listeners |-> listeners,
   log |-> <<>>, calls |-> <<>>, steps |-> <<>>, threw |-> <<>>,
   invoked |-> FALSE]

\* One more step taken by the handler.
Step(w, step, arg) == [w EXCEPT !.steps = Append(@, [step |-> step, arg |-> arg])]

\* logMessage assigning the message to the output element instead of
\* appending it.
logMessageOverwriting(w, message, isError) ==
  [w EXCEPT
     !.out = IF "OUTPUT" \in present /\ isError THEN message \o <<"\n">> ELSE @,
     !.log = Append(@, [text |-> message, isError |-> isError])]

\* logMessage(message, isError): console.error or console.log always; the
\* output element, when it exists, gets message + "\n" appended for errors.
logMessage(w, message, isError) ==
  [w EXCEPT
     !.out = IF "OUTPUT" \in present /\ isError
             THEN @ \o message \o <<"\n">>
             ELSE @,
     !.log = Append(@, [text |-> message, isError |-> isError])]

\* clearCanvas leaving the surface as it is.
clearCanvasSkipped(w) == w

\* clearCanvas(): clearRect over the whole canvas, or a console message when
\* there is no canvas.
clearCanvas(w) ==
  IF "CANVAS" \notin present
  THEN logMessage(w, <<"Canvas element not found">>, FALSE)
  ELSE [w EXCEPT !.canvas = <<>>, !.calls = Append(@, Call("clearRect", NoArg))]

TypeErrorNull == <<"Cannot read properties of null">>

\* updateTriangle committing the length before the depth.
updateTriangleLengthFirst(w, fault) ==
  LET w0 == [Step(w, "updateTriangle", "") EXCEPT !.invoked = TRUE] IN
  IF "DEPTH" \notin present \/ "LENGTH" \notin present
  THEN [w0 EXCEPT !.threw = TypeErrorNull]
  ELSE
    LET depth  == parseInt(w0.depthValue)
        length == parseFloat(w0.lengthValue)
    IN  IF isNaN(depth) \/ isNaN(length)
        THEN logMessage(w0, <<"Invalid input values">>, TRUE)
        ELSE
          LET w1 == set_length(w0, length, fault)
              w2 == IF w1.threw # <<>> THEN w1 ELSE set_depth(w1, depth, fault)
              w3 == IF w2.threw # <<>> THEN w2 ELSE clearCanvas(w2)
          IN  IF w3.threw # <<>> THEN w3 ELSE main_js(w3, fault)

\* updateTriangle(): parse both fields; NaN in either: one error entry and
\* return; otherwise set_depth, set_length, clearCanvas, main_js, in that
\* order, an exception ending the function where it is raised.
updateTriangle(w, fault) ==
  LET w0 == [Step(w, "updateTriangle", "") EXCEPT !.invoked = TRUE] IN
  IF "DEPTH" \notin present \/ "LENGTH" \notin present
  THEN [w0 EXCEPT !.threw = TypeErrorNull]
  ELSE
    LET depth  == parseInt(w0.depthValue)
        length == parseFloat(w0.lengthValue)
    IN  IF isNaN(depth) \/ isNaN(length)
        THEN logMessage(w0, <<"Invalid input values">>, TRUE)
        ELSE
          LET w1 == set_depth(w0, depth, fault)
              w2 == IF w1.threw # <<>> THEN w1 ELSE set_length(w1, length, fault)
              w3 == IF w2.threw # <<>> THEN w2 ELSE clearCanvas(w2)
          IN  IF w3.threw # <<>> THEN w3 ELSE main_js(w3, fault)

\* Array.prototype.join
RECURSIVE Join(_, _)
Join(seq, sep) ==
  IF seq = <<>> THEN <<>>
  ELSE IF Len(seq) = 1 THEN seq
  ELSE <<Head(seq), sep>> \o Join(Tail(seq), sep)

\* The keys of ELEMENT_IDS whose getElementById returned null, in key order.
missingElements == SelectSeq(ELEMENT_IDS, LAMBDA key : key \notin present)

\* The roles that get the "input" listener, in the order of the forEach.
ListenerTargets == <<"DEPTH", "LENGTH", "DRAW">>

\* The forEach that attaches nothing.
AddListenersNone(w, targets) == w

RECURSIVE AddListeners(_, _)
AddListeners(w, targets) ==
  IF targets = <<>> THEN w
  ELSE AddListeners(
         [Step(logMessage(w, <<"Adding : ", Head(targets)>>, FALSE),
               "addEventListener", Head(targets))
            EXCEPT !.listeners = @ \cup {[target |-> Head(targets), type |-> "input"]}],
         Tail(targets))

\* The map over ELEMENT_IDS: one getElementById per key, in key order.
RECURSIVE GetElements(_, _)
GetElements(w, keys) ==
  IF keys = <<>> THEN w
  ELSE GetElements(Step(w, "getElementById", Head(keys)), Tail(keys))

\* The catch block of run().
RunCatch(w) == logMessage(w, <<"Error in run function: ">> \o w.threw, TRUE)

\* run(): the whole bootstrap; every exception of its try block ends in the
\* catch block.
run(w, fault) ==
  IF "OUTPUT" \notin present
  THEN RunCatch([w EXCEPT !.threw = TypeErrorNull])
  ELSE
    LET w1 == [w EXCEPT !.out = <<"0 Error Wasm World!">>]
        w2 == logMessage(w1, <<"Starting run function">>, FALSE)
        w3 == logMessage(GetElements(w2, ELEMENT_IDS),
                         <<"Found [5/5] HTML elements">>, FALSE)
    IN  IF Len(missingElements) > 0
        THEN RunCatch([w3 EXCEPT !.threw =
                         <<"Missing HTML elements: ">> \o Join(missingElements, ",")])
        ELSE
          LET w4 == logMessage(w3, <<"depthInput type: ">>, FALSE)
              w5 == logMessage(w4, <<"lengthInput type: ">>, FALSE)
              w6 == logMessage(w5, <<"drawButton type: ">>, FALSE)
              w7 == logMessage(w6, <<"canvasElement type: ">>, FALSE)
              w8 == [Step(Step(w7, "setValue", "DEPTH"), "setValue", "LENGTH")
                       EXCEPT !.depthValue = NumberToString(get_depth(w7)),
                              !.lengthValue = NumberToString(get_length(w7))]
              w9 == AddListeners(w8, ListenerTargets)
              wA == updateTriangle(w9, fault)
          IN  IF wA.threw # <<>> THEN RunCatch(wA) ELSE wA

\* A dispatch whose listener only schedules the update for later.
DispatchDeferred(w, target, type, fault) == w

\* An event of the given type on the given element: its listeners run.
Dispatch(w, target, type, fault) ==
  IF [target |-> target, type |-> type] \in w.listeners
  THEN updateTriangle(w, fault)
  ELSE w

\* ------------------------------------------------------------- the actions

Init ==
  /\ present \in SUBSET Roles
  /\ ctrl = "Initializing"
  /\ depthValue = <<>>
  /\ lengthValue = <<>>
  /\ engine \in EngineDefaults
  /\ canvas = <<>>
  /\ out = (IF "OUTPUT" \in present THEN PageText ELSE <<>>)
  /\ listeners = {}
  /\ last = [op |-> "none", target |-> "", invoked |-> FALSE, calls |-> <<>>,
             steps |-> <<>>, log |-> <<>>, threw |-> <<>>, escaped |-> FALSE, repeated |-> FALSE]
  /\ runs = 0
  /\ events = 0
  /\ quiet = DelayTicks
  /\ burstEvents = 0
  /\ burstRuns = 0

\* What a handler leaves behind.
Commit(w, op, target, escaped) ==
  /\ depthValue' = w.depthValue
  /\ lengthValue' = w.lengthValue
  /\ engine' = w.engine
  /\ canvas' = w.canvas
  /\ out' = w.out
  /\ listeners' = w.listeners
  /\ last' = [op |-> op, target |-> target, invoked |-> w.invoked,
              calls |-> w.calls, steps |-> w.steps, log |-> w.log, threw |-> w.threw,
              escaped |-> escaped,
              \* updateTriangle ran, and ran in the handler before, on the same
              \* field contents, neither raising an exception
              repeated |-> /\ w.invoked /\ last.invoked
                           /\ w.threw = <<>> /\ last.threw = <<>>
                           /\ w.depthValue = depthValue
                           /\ w.lengthValue = lengthValue]
  /\ runs' = runs + (IF w.invoked THEN 1 ELSE 0)

\* The module is loaded: run() is called once; its own catch handles every
\* exception, so the promise it returns never rejects.
Run ==
  /\ ctrl = "Initializing"
  /\ \E fault \in Faults :
       LET w == run(HandlerStart, fault)
       IN  /\ Commit(w, "run", "", FALSE)
           /\ ctrl' = (IF w.threw # <<>> THEN "Failed" ELSE "Ready")
  /\ UNCHANGED <<present, events, quiet, burstEvents, burstRuns>>

\* The user edits a numeric field: its value changes and an "input" event is
\* dispatched on it.  A listener's exception is not caught by the controller.
FieldInput(target, text, fault) ==
  /\ ctrl # "Initializing"
  /\ events < MaxEvents
  /\ target \in present
  /\ LET w0 == IF target = "DEPTH"
               THEN [HandlerStart EXCEPT !.depthValue = text]
               ELSE [HandlerStart EXCEPT !.lengthValue = text]
         w  == Dispatch(w0, target, "input", fault)
         newBurst == burstEvents = 0 \/ quiet >= DelayTicks
     IN  /\ Commit(w, "input", target, w.threw # <<>>)
         /\ burstEvents' = (IF newBurst THEN 1 ELSE burstEvents + 1)
         /\ burstRuns' = (IF newBurst THEN 0 ELSE burstRuns)
                           + (IF w.invoked THEN 1 ELSE 0)
  /\ quiet' = 0
  /\ events' = events + 1
  /\ UNCHANGED <<present, ctrl>>

\* An "input" event on the DRAW control (a control that has a value).
DrawInput(fault) ==
  /\ ctrl # "Initializing"
  /\ events < MaxEvents
  /\ "DRAW" \in present
  /\ LET w == Dispatch(HandlerStart, "DRAW", "input", fault)
     IN  Commit(w, "input", "DRAW", w.threw # <<>>)
  /\ events' = events + 1
  /\ UNCHANGED <<present, ctrl, quiet, burstEvents, burstRuns>>

\* The user clicks the DRAW control: a "click" event is dispatched on it.
DrawClick(fault) ==
  /\ ctrl # "Initializing"
  /\ events < MaxEvents
  /\ "DRAW" \in present
  /\ LET w == Dispatch(HandlerStart, "DRAW", "click", fault)
     IN  Commit(w, "click", "DRAW", w.threw # <<>>)
  /\ events' = events + 1
  /\ UNCHANGED <<present, ctrl, quiet, burstEvents, burstRuns>>

\* Time passes with no event.
Tick ==
  /\ ctrl # "Initializing"
  /\ quiet < DelayTicks
  /\ quiet' = quiet + 1
  /\ UNCHANGED <<present, ctrl, depthValue, lengthValue, engine, canvas, out,
                 listeners, last, runs, events, burstEvents, burstRuns>>

Next ==
  \/ Run
  \/ \E target \in {"DEPTH", "LENGTH"}, text \in FieldTexts, fault \in Faults :
       FieldInput(target, text, fault)
  \/ \E fault \in Faults : DrawInput(fault)
  \/ \E fault \in Faults : DrawClick(fault)
  \/ Tick

Spec == Init /\ [][Next]_vars

\* ---------------------------------------------------------------- claims

ErrorEntries(log) == SelectSeq(log, LAMBDA e : e.isError)
IsNonNegInt(x) == ~x.nan /\ x.s = 0 /\ x.m >= 0
IsPositive(x) == ~x.nan /\ x.m > 0
ParseFails == parseInt(depthValue).nan \/ parseFloat(lengthValue).nan
Tokens(text) == {text[i] : i \in 1..Len(text)}
InvalidEntry == [text |-> <<"Invalid input values">>, isError |-> TRUE]

\* What the error entries of a log add to the output element.
RECURSIVE VisibleText(_)
VisibleText(log) ==
  IF log = <<>> THEN <<>>
  ELSE (IF Head(log).isError THEN Head(log).text \o <<"\n">> ELSE <<>>)
         \o VisibleText(Tail(log))

\* C1: an invocation of updateTriangle whose DEPTH field parses to an integer
\* >= 0 and whose LENGTH field parses to a positive number, and in which every
\* engine call returns, makes exactly these calls in this order: set_depth
\* with the parsed depth, set_length with the parsed length, one clear of the
\* surface, one render; and it logs no error entry.
C1_ValidUpdateCommitsClearsRenders ==
  ( /\ last.invoked
    /\ last.threw = <<>>
    /\ IsNonNegInt(parseInt(depthValue))
    /\ IsPositive(parseFloat(lengthValue)) )
  => /\ last.calls = << Call("set_depth", parseInt(depthValue)),
                        Call("set_length", parseFloat(lengthValue)),
                        Call("clearRect", NoArg),
                        Call("main_js", NoArg) >>
     /\ ErrorEntries(last.log) = <<>>

C1_Witness ==
  /\ last.op = "input"
  /\ last.invoked
  /\ last.threw = <<>>
  /\ depthValue = <<"3">>
  /\ lengthValue = <<"2", ".", "5">>
  /\ Len(last.calls) = 4

C3_OneExecutionPerBurst ==
  (ctrl = "Ready" /\ burstEvents >= 1 /\ quiet >= DelayTicks) => burstRuns = 1

\* C4 (as claimed): when some of the five roles are absent, bootstrap ends in
\* Failed with exactly one error entry, which names every missing role.
C4_OneEntryNamesAllMissing ==
  (last.op = "run" /\ Len(missingElements) > 0)
  => /\ ctrl = "Failed"
     /\ Len(ErrorEntries(last.log)) = 1
     /\ \A i \in 1..Len(missingElements) :
          missingElements[i] \in Tokens(ErrorEntries(last.log)[1].text)

\* C5 (as claimed): in Failed, a user event on DEPTH, LENGTH or DRAW leads to
\* no engine write, no clear and no render.
C5_NoInputProcessedInFailed ==
  (ctrl = "Failed" /\ last.op \in {"input", "click"}) => last.calls = <<>>

\* C6 (as claimed): every exception raised in a handler of the controller,
\* also in an update cycle an input event triggers in Ready, results in an
\* error log entry carrying its message.
C6_EveryErrorIsLogged ==
  (ctrl = "Ready" /\ last.threw # <<>>)
  => \E i \in 1..Len(last.log) :
       /\ last.log[i].isError
       /\ Tokens(last.threw) \subseteq Tokens(last.log[i].text)

\* C7 (as claimed): every value the controller passes to set_depth is an
\* integer >= 0 and every value it passes to set_length is a positive number
\* (stated for the update cycles of a controller that is Ready).
C7_OnlyValidParametersForwarded ==
  ctrl = "Ready"
  => \A i \in 1..Len(last.calls) :
       /\ last.calls[i].op = "set_depth" => IsNonNegInt(last.calls[i].arg)
       /\ last.calls[i].op = "set_length" => IsPositive(last.calls[i].arg)

\* C8 (as claimed): a second invocation of updateTriangle in a row on the
\* same DEPTH and LENGTH contents leaves the engine state and the visible
\* output (the surface and the output region) as the first left them.
C8_IdempotentAsClaimed ==
  [][ ( /\ ctrl = "Ready"
        /\ last.invoked /\ last.threw = <<>>
        /\ runs' = runs + 1 /\ last'.threw = <<>>
        /\ depthValue' = depthValue /\ lengthValue' = lengthValue )
      => (engine' = engine /\ canvas' = canvas /\ out' = out) ]_vars

\* C8 (amended): a second invocation in a row on the same field contents, no
\* engine call failing, leaves the engine state and the surface as the first
\* left them; the output region is left unchanged when both fields parse, and
\* gains one more "Invalid input values" line when one does not.
C8_IdempotentOnEngineAndSurface ==
  [][ ( /\ last.invoked /\ last.threw = <<>>
        /\ runs' = runs + 1 /\ last'.threw = <<>>
        /\ depthValue' = depthValue /\ lengthValue' = lengthValue )
      => /\ engine' = engine
         /\ canvas' = canvas
         /\ out' = out \o (IF ParseFails
                           THEN <<"Invalid input values", "\n">>
                           ELSE <<>>) ]_vars

C8_Witness ==
  /\ last.repeated
  /\ ~ParseFails
  /\ Len(last.calls) = 4
  /\ canvas = <<engine>>

\* C9: the output region is append-only.  run() sets it once, before any
\* entry is appended; after that a handler adds to it exactly the messages it
\* logged as errors, each followed by a newline, in the order logged, and
\* nothing else ever changes it.
C9_VisibleLogAppendOnly ==
  [][ IF ctrl = "Initializing"
      THEN out' = (IF "OUTPUT" \in present
                   THEN <<"0 Error Wasm World!">> \o VisibleText(last'.log)
                   ELSE out)
      ELSE IF runs' # runs
           THEN out' = out \o VisibleText(last'.log)
           ELSE out' = out ]_vars

C9_Witness ==
  /\ last.op = "input"
  /\ out = <<"0 Error Wasm World!", "Invalid input values", "\n",
             "Invalid input values", "\n">>

\* C10 (as claimed): in Ready a click on the DRAW control invokes
\* updateTriangle at once, within the dispatch of the click.
C10_ClickInvokesUpdateAtOnce ==
  (ctrl = "Ready" /\ last.op = "click") => last.invoked

\* C11: in Ready, an input event on a numeric field that arrives a full delay
\* window or more after the previous one (or is the first) causes its own
\* execution of updateTriangle, within its dispatch: the count of executions
\* grows by exactly one with each such event, so k of them give k executions.
C11_SpacedEventsEachExecute ==
  [][ ( /\ ctrl = "Ready"
        /\ events' = events + 1
        /\ last'.op = "input"
        /\ last'.target \in {"DEPTH", "LENGTH"}
        /\ (burstEvents = 0 \/ quiet >= DelayTicks) )
      => /\ last'.invoked
         /\ runs' = runs + 1
         /\ burstEvents' = 1
         /\ burstRuns' = 1 ]_vars

\* Two input events, one on each field, a full delay window apart: three
\* executions with the first render.
C11_Witness ==
  /\ ctrl = "Ready"
  /\ events = 2
  /\ last.op = "input"
  /\ depthValue = <<"3">>
  /\ lengthValue = <<"-", "1">>
  /\ burstEvents = 1
  /\ burstRuns = 1
  /\ runs = 3

\* C12: an update cycle in which set_depth succeeds and set_length fails
\* leaves the engine with the newly written depth and its old length, and
\* makes no clear and no render: the only call made is set_depth.
C12_PartialCommitNoRollback ==
  [][ (runs' = runs + 1 /\ last'.threw = EngineError("set_length"))
      => /\ engine'.depth = parseInt(depthValue')
         /\ engine'.length = engine.length
         /\ canvas' = canvas
         /\ last'.calls = <<Call("set_depth", parseInt(depthValue'))>> ]_vars

\* The length write failed after depth 3 replaced another depth.
C12_Witness ==
  /\ last.op = "input"
  /\ last.threw = EngineError("set_length")
  /\ depthValue = <<"3">>
  /\ engine.depth = Num(3, 0)
  /\ engine.length = Num(100, 0)
  /\ lengthValue = <<"2", ".", "5">>

BootstrapSteps ==
  [i \in 1..Len(ELEMENT_IDS) |-> [step |-> "getElementById", arg |-> ELEMENT_IDS[i]]]
  \o << [step |-> "setValue", arg |-> "DEPTH"],
        [step |-> "setValue", arg |-> "LENGTH"],
        [step |-> "addEventListener", arg |-> "DEPTH"],
        [step |-> "addEventListener", arg |-> "LENGTH"],
        [step |-> "addEventListener", arg |-> "DRAW"],
        [step |-> "updateTriangle", arg |-> ""] >>

\* C13: with all five elements present and nothing thrown, run() takes its
\* steps in this order: the five elements are looked up in one pass, the
\* engine's depth and length are written into the DEPTH and LENGTH fields, the
\* three listeners are attached, updateTriangle runs once; the controller is
\* then Ready.  Whenever the look-up finds an element missing, no listener is
\* attached.
C13_BootstrapOrder ==
  [][ ctrl = "Initializing"
      => /\ (Len(missingElements) = 0 /\ last'.threw = <<>>)
              => /\ last'.steps = BootstrapSteps
                 /\ depthValue' = NumberToString(engine.depth)
                 /\ lengthValue' = NumberToString(engine.length)
                 /\ listeners' = {[target |-> ListenerTargets[i], type |-> "input"] :
                                    i \in 1..Len(ListenerTargets)}
                 /\ runs' = 1
                 /\ ctrl' = "Ready"
         /\ Len(missingElements) > 0 => listeners' = {} ]_vars

C13_Witness ==
  /\ last.op = "run"
  /\ ctrl = "Ready"
  /\ last.steps = BootstrapSteps
  /\ Cardinality(listeners) = 3
  /\ runs = 1

\* C14: whenever a handler has invoked the render entry point, the call just
\* before it was the clear of the surface, the surface shows that one render
\* only, and the engine's depth and length are the values parsed from the
\* contents of the DEPTH and LENGTH fields.
C14_RenderAfterClearWithFieldValues ==
  \A i \in 1..Len(last.calls) :
    last.calls[i].op = "main_js"
    => /\ i > 1
       /\ last.calls[i - 1].op = "clearRect"
       /\ canvas = <<engine>>
       /\ engine.depth = parseInt(depthValue)
       /\ engine.length = parseFloat(lengthValue)

\* A render after input events changed both fields.
C14_Witness ==
  /\ last.op = "input"
  /\ events = 2
  /\ depthValue = <<"3", "p">>
  /\ lengthValue = <<"3">>
  /\ Len(last.calls) = 4
  /\ last.calls[4].op = "main_js"

\* C15: a bootstrap that ends in Ready leaves the engine's depth and length
\* as they were before it: the values written to the fields, parsed again
\* and committed are the values read.
C15_BootstrapRoundTrip ==
  [][ (ctrl = "Initializing" /\ ctrl' = "Ready")
      => /\ engine' = engine
         /\ parseInt(depthValue') = engine.depth
         /\ parseFloat(lengthValue') = engine.length ]_vars

\* The first render committed a length with a fraction below 0.1.
C15_Witness ==
  /\ last.op = "run"
  /\ ctrl = "Ready"
  /\ lengthValue = <<"0", ".", "0", "5">>
  /\ last.calls[2] = Call("set_length", Num(5, 2))
  /\ engine.length = Num(5, 2)

====
